---- MODULE Spec2Model ----
(***************************************************************************)
(* Model of the sentiment service (sentiment.py) and of the tabular        *)
(* pipeline (csv_utils.py).                                                *)
(*                                                                         *)
(* Strings are sequences of one-character strings, so that strip(),        *)
(* lower(), slicing and the `in` substring test are computed.              *)
(* Real numbers are fixed-point integers: a compound score c stands for    *)
(* c / Scale, an unrounded confidence x for x / (10 * Scale).              *)
(***************************************************************************)
EXTENDS Integers, Sequences, FiniteSets, TLC

\* ------------------------------------------------------------------ bounds
MaxBatch == 2      \* longest list handed to analyze_batch
MaxRows == 2       \* most rows of a table handed to run_sentiment_on_df
MaxCols == 2       \* most columns of a generated table handed to detect_text_column
MaxLoads == 3      \* the load counter saturates here
NumThreads == 2    \* concurrent callers of analyze_text

\* --------------------------------------------------------- program constants
Scale == 10000     \* round(..., 4): four decimal places
TRUNC == 512       \* [:512]
POS_THRESHOLD == 500    \* compound >= 0.05
NEG_THRESHOLD == -500   \* compound <= -0.05
MEDIAN_MIN == 20        \* median() > 20

\* ------------------------------------------------------------ string helpers
Min(a, b) == IF a <= b THEN a ELSE b
Abs(a) == IF a < 0 THEN -a ELSE a

UpperToLower ==
    ("A" :> "a") @@ ("B" :> "b") @@ ("C" :> "c") @@ ("D" :> "d") @@ ("E" :> "e") @@
    ("F" :> "f") @@ ("G" :> "g") @@ ("H" :> "h") @@ ("I" :> "i") @@ ("J" :> "j") @@
    ("K" :> "k") @@ ("L" :> "l") @@ ("M" :> "m") @@ ("N" :> "n") @@ ("O" :> "o") @@
    ("P" :> "p") @@ ("Q" :> "q") @@ ("R" :> "r") @@ ("S" :> "s") @@ ("T" :> "t") @@
    ("U" :> "u") @@ ("V" :> "v") @@ ("W" :> "w") @@ ("X" :> "x") @@ ("Y" :> "y") @@
    ("Z" :> "z")

LowerChar(c) == IF c \in DOMAIN UpperToLower THEN UpperToLower[c] ELSE c

\* the lists over S of length at most n
ListsUpTo(S, n) == UNION {[1..k -> S] : k \in 0..n}

\* a sequence given as a function, as a tuple
Tup(f) == SubSeq(f, 1, Len(f))

\* str.lower()
Lower(s) == Tup([i \in 1..Len(s) |-> LowerChar(s[i])])

IsSpace(c) == c \in {" ", "\t", "\n", "\r"}

\* str.strip(): drop leading and trailing whitespace
Strip(s) ==
    LET idx == {i \in 1..Len(s) : ~IsSpace(s[i])}
    IN IF idx = {} THEN <<>>
       ELSE LET lo == CHOOSE i \in idx : \A j \in idx : i <= j
                hi == CHOOSE i \in idx : \A j \in idx : j <= i
            IN SubSeq(s, lo, hi)

\* s[:512]
Truncate(s) == SubSeq(s, 1, Min(Len(s), TRUNC))

\* a in b, for strings
IsSubstr(a, b) ==
    \E i \in 0..(Len(b) - Len(a)) : SubSeq(b, i + 1, i + Len(a)) = a

\* the argument both analyzers receive: str(text).strip()[:512]
Key(text) == Truncate(Strip(text))

\* ----------------------------------------------------------- sample inputs
T_empty == <<>>
T_blank == <<" ", " ", " ">>
T_good == <<"o", "k">>
T_good_padded == <<" ", "o", "k", "\n">>
T_bad == <<"n", "o">>

Texts == {T_empty, T_blank, T_good, T_good_padded, T_bad}

\* texts handed to analyze_batch
BatchTexts == {T_blank, T_good_padded, T_bad}

\* compound scores per key that the lexicon may give (in 1/Scale)
OnKeys(a, b) == (T_good :> a) @@ (T_bad :> b)

LexiconSamples == {OnKeys(POS_THRESHOLD + 1, NEG_THRESHOLD),
                   OnKeys(0, Scale),
                   OnKeys(-Scale, POS_THRESHOLD - 1)}

L_positive == <<"p","o","s","i","t","i","v","e">>
L_negative == <<"n","e","g","a","t","i","v","e">>
L_neutral == <<"n","e","u","t","r","a","l">>
L_pos == <<"p","o","s">>
L_neg == <<"n","e","g">>

Item(l, s) == [label |-> l, score |-> s]

\* what pipe(text)[0] may be: a list of {label, score}, or one {label, score};
\* scores in 1/(10*Scale)
M_list == [isList |-> TRUE,
     items |-> <<Item(<<"L","A","B","E","L","_","0">>, 40000),
                 Item(<<"N","E","G">>, 40000),
                 Item(L_positive, 20000)>>]
M_dict ==
    [isList |-> FALSE,
     items |-> <<Item(<<"N","e","g","a","t","i","v","e">>, 100000), Item(L_positive, 0)>>]
M_dup ==
    [isList |-> TRUE,
     items |-> <<Item(<<"P","o","s">>, 0), Item(L_neutral, 33336), Item(L_pos, 66664)>>]

ClassifierSamples == {OnKeys(M_list, M_dict), OnKeys(M_dup, M_list)}

\* ------------------------------------------------------------------- state
VARIABLES
    _pipeline,     \* module global: "None" or "pipe"
    _use_vader,    \* module global: "None", "True" or "False"
    _analyzer,     \* hasattr(_analyze_vader, "_analyzer")
    loads,         \* history: how many times the try block was entered
    lexicon,       \* environment: polarity_scores(key)["compound"]
    classifier,    \* environment: pipe(key)[0]
    fpTieUp,       \* environment: unrounded confidences ending in 5 that
                   \* binary floating point rounds upwards
    call,          \* the last completed call and what it did
    threads        \* concurrent callers of analyze_text: where each one is

vars == <<_pipeline, _use_vader, _analyzer, loads, lexicon, classifier, fpTieUp,
          call, threads>>

\* ------------------------------------------------------------- the service
\* the spec's name for the two globals taken together
Selection(p, u) ==
    IF u = "True" THEN "LEXICON"
    ELSE IF u = "False" /\ p # "None" THEN "MODEL"
    ELSE "UNRESOLVED"

\* round(x, 4) of x / (10 * Scale), in 1/Scale
Round4(x, tieUp) ==
    LET q == x \div 10
        r == x % 10
    IN IF r > 5 \/ (r = 5 /\ x \in tieUp) THEN q + 1 ELSE q

\* _analyze_vader with strict comparisons: > 0.05 and < -0.05
VaderResult_strict(c, tieUp) ==
    IF c > POS_THRESHOLD
    THEN <<"positive", Round4(Min(10 * Scale, 5 * Scale + 5 * c), tieUp)>>
    ELSE IF c < NEG_THRESHOLD
    THEN <<"negative", Round4(Min(10 * Scale, 5 * Scale + 5 * Abs(c)), tieUp)>>
    ELSE <<"neutral", Round4(5 * Scale + (5 * Scale - 10 * Abs(c)), tieUp)>>

\* _analyze_vader, after the lexicon produced compound c
VaderResult(c, tieUp) ==
    IF c >= POS_THRESHOLD
    THEN <<"positive", Round4(Min(10 * Scale, 5 * Scale + 5 * c), tieUp)>>
    ELSE IF c <= NEG_THRESHOLD
    THEN <<"negative", Round4(Min(10 * Scale, 5 * Scale + 5 * Abs(c)), tieUp)>>
    ELSE <<"neutral", Round4(5 * Scale + (5 * Scale - 10 * Abs(c)), tieUp)>>

\* _normalize_label that hands an unrecognized label back
_normalize_label_passthrough(label) ==
    LET l == Lower(label)
    IN IF l \in {L_positive, L_pos} THEN "positive"
       ELSE IF l \in {L_negative, L_neg} THEN "negative"
       ELSE IF l = L_neutral THEN "neutral"
       ELSE "other"

\* _normalize_label
_normalize_label(label) ==
    LET l == Lower(label)
    IN IF l \in {L_positive, L_pos} THEN "positive"
       ELSE IF l \in {L_negative, L_neg} THEN "negative"
       ELSE "neutral"

\* by_label[label.lower()] = score. The dict is the list of its entries:
\* a key keeps the place of its first insertion and takes the last value
DictSet(d, label, score) ==
    IF \E i \in 1..Len(d) : d[i].label = label
    THEN Tup([i \in 1..Len(d) |-> IF d[i].label = label THEN Item(label, score) ELSE d[i]])
    ELSE Append(d, Item(label, score))

\* {r["label"].lower(): r["score"] for r in result}
RECURSIVE ByLabel(_, _)
ByLabel(items, d) ==
    IF items = <<>> THEN d
    ELSE ByLabel(Tail(items), DictSet(d, Lower(Head(items).label), Head(items).score))

\* max(by_label, key=by_label.get): the first key that has the largest value
RECURSIVE ArgMax(_, _, _)
ArgMax(by_label, i, best) ==
    IF i > Len(by_label) THEN best
    ELSE ArgMax(by_label, i + 1,
                IF by_label[i].score > by_label[best].score THEN i ELSE best)

\* analyze_text from `result = pipe(...)[0]` on
ModelResult(out, tieUp) ==
    LET by_label == ByLabel(IF out.isList THEN out.items ELSE <<out.items[1]>>, <<>>)
        best == by_label[ArgMax(by_label, 2, 1)]
    IN <<_normalize_label(best.label), Round4(best.score, tieUp)>>

\* the module globals as one value
Globals == [pipeline |-> _pipeline, use_vader |-> _use_vader,
            analyzer |-> _analyzer, loads |-> loads]

Bump(n) == Min(n + 1, MaxLoads)

\* _get_pipeline that tries the load again after a failure
_get_pipeline_retry(g, ok) ==
    IF g.use_vader = "False" /\ g.pipeline # "None"
    THEN [g |-> g, pipe |-> g.pipeline, tried |-> FALSE, exc |-> FALSE]
    ELSE IF ok
    THEN [g |-> [g EXCEPT !.pipeline = "pipe", !.use_vader = "False",
                          !.loads = Bump(g.loads)],
          pipe |-> "pipe", tried |-> TRUE, exc |-> FALSE]
    ELSE [g |-> [g EXCEPT !.use_vader = "True", !.loads = Bump(g.loads)],
          pipe |-> "None", tried |-> TRUE, exc |-> FALSE]

\* _get_pipeline without the except clause: a failing load raises
_get_pipeline_raising(g, ok) ==
    IF g.use_vader = "False" /\ g.pipeline # "None"
    THEN [g |-> g, pipe |-> g.pipeline, tried |-> FALSE, exc |-> FALSE]
    ELSE IF g.use_vader = "True"
    THEN [g |-> g, pipe |-> "None", tried |-> FALSE, exc |-> FALSE]
    ELSE IF ok
    THEN [g |-> [g EXCEPT !.pipeline = "pipe", !.use_vader = "False",
                          !.loads = Bump(g.loads)],
          pipe |-> "pipe", tried |-> TRUE, exc |-> FALSE]
    ELSE [g |-> [g EXCEPT !.loads = Bump(g.loads)],
          pipe |-> "None", tried |-> TRUE, exc |-> TRUE]

\* _get_pipeline; ok says whether the import and pipeline(...) succeed if tried.
\* tried: the try block was entered; exc: an exception leaves the function
_get_pipeline(g, ok) ==
    IF g.use_vader = "False" /\ g.pipeline # "None"
    THEN [g |-> g, pipe |-> g.pipeline, tried |-> FALSE, exc |-> FALSE]
    ELSE IF g.use_vader = "True"
    THEN [g |-> g, pipe |-> "None", tried |-> FALSE, exc |-> FALSE]
    ELSE IF ok
    THEN [g |-> [g EXCEPT !.pipeline = "pipe", !.use_vader = "False",
                          !.loads = Bump(g.loads)],
          pipe |-> "pipe", tried |-> TRUE, exc |-> FALSE]
    ELSE [g |-> [g EXCEPT !.use_vader = "True", !.loads = Bump(g.loads)],
          pipe |-> "None", tried |-> TRUE, exc |-> FALSE]

\* _analyze_vader
_analyze_vader(g, text, lex, tieUp) ==
    [g |-> [g EXCEPT !.analyzer = TRUE],
     ret |-> VaderResult(lex[Key(text)], tieUp)]

\* `not text or not str(text).strip()`
IsBlank(text) == Len(text) = 0 \/ Len(Strip(text)) = 0

\* analyze_text that looks at the text only after _get_pipeline()
analyze_text_late_check(g, text, ok, lex, cls, tieUp) ==
    LET gp == _get_pipeline(g, ok)
        n == IF gp.tried THEN 1 ELSE 0
    IN IF IsBlank(text)
       THEN [g |-> gp.g, ret |-> <<"neutral", 0>>, raised |-> FALSE,
             tried |-> n, used |-> "none"]
       ELSE IF gp.pipe = "None"
       THEN LET v == _analyze_vader(gp.g, text, lex, tieUp)
            IN [g |-> v.g, ret |-> v.ret, raised |-> FALSE, tried |-> n, used |-> "vader"]
       ELSE [g |-> gp.g, ret |-> ModelResult(cls[Key(text)], tieUp),
             raised |-> FALSE, tried |-> n, used |-> "model"]

\* analyze_text. used: which analyzer answered; tried: load attempts made
analyze_text(g, text, ok, lex, cls, tieUp) ==
    IF IsBlank(text)
    THEN [g |-> g, ret |-> <<"neutral", 0>>, raised |-> FALSE,
          tried |-> 0, used |-> "none"]
    ELSE LET gp == _get_pipeline(g, ok)
             n == IF gp.tried THEN 1 ELSE 0
         IN IF gp.exc
            THEN [g |-> gp.g, ret |-> <<"neutral", 0>>, raised |-> TRUE,
                  tried |-> n, used |-> "none"]
            ELSE IF gp.pipe = "None"
            THEN LET v == _analyze_vader(gp.g, text, lex, tieUp)
                 IN [g |-> v.g, ret |-> v.ret, raised |-> FALSE,
                     tried |-> n, used |-> "vader"]
            ELSE [g |-> gp.g, ret |-> ModelResult(cls[Key(text)], tieUp),
                  raised |-> FALSE, tried |-> n, used |-> "model"]

\* analyze_batch: [analyze_text(t) for t in texts]; an exception ends the loop
RECURSIVE BatchFrom(_, _, _, _, _, _, _)
BatchFrom(acc, texts, i, ok, lex, cls, tieUp) ==
    IF i > Len(texts) \/ acc.raised THEN acc
    ELSE LET r == analyze_text(acc.g, texts[i], ok, lex, cls, tieUp)
         IN BatchFrom([g |-> r.g,
                       ret |-> IF r.raised THEN acc.ret ELSE Append(acc.ret, r.ret),
                       raised |-> r.raised,
                       tried |-> acc.tried + r.tried,
                       used |-> Append(acc.used, r.used)],
                      texts, i + 1, ok, lex, cls, tieUp)

\* analyze_batch that leaves blank texts out
analyze_batch_skip_blank(g, texts, ok, lex, cls, tieUp) ==
    BatchFrom([g |-> g, ret |-> <<>>, raised |-> FALSE, tried |-> 0, used |-> <<>>],
              SelectSeq(texts, LAMBDA t : ~IsBlank(t)), 1, ok, lex, cls, tieUp)

analyze_batch(g, texts, ok, lex, cls, tieUp) ==
    BatchFrom([g |-> g, ret |-> <<>>, raised |-> FALSE, tried |-> 0, used |-> <<>>],
              texts, 1, ok, lex, cls, tieUp)

\* ---------------------------------------------------- the tabular pipeline
\* a cell of a table: a string, a missing value, an integer or a float (in 1/Scale)
Str(s) == [kind |-> "str", s |-> s, n |-> 0]
NaN == [kind |-> "nan", s |-> <<>>, n |-> 0]
Num(n) == [kind |-> "int", s |-> <<>>, n |-> n]
Flt(n) == [kind |-> "float", s |-> <<>>, n |-> n]

\* a table: the column names and, for each of them in order, the column's cells
Table(columns, data) == [columns |-> columns, data |-> data]

Digits == <<"0","1","2","3","4","5","6","7","8","9">>

RECURSIVE IntStr(_)
IntStr(n) == IF n < 10 THEN <<Digits[n + 1]>> ELSE Append(IntStr(n \div 10), Digits[(n % 10) + 1])

\* str(value) of a cell, as astype(str) gives it
AsStr(cell) ==
    IF cell.kind = "str" THEN cell.s
    ELSE IF cell.kind = "nan" THEN <<"n","a","n">>
    ELSE IntStr(cell.n)

C_review == <<"r","e","v","i","e","w">>
C_text == <<"t","e","x","t">>
C_content == <<"c","o","n","t","e","n","t">>
C_comment == <<"c","o","m","m","e","n","t">>
C_feedback == <<"f","e","e","d","b","a","c","k">>
C_message == <<"m","e","s","s","a","g","e">>
C_body == <<"b","o","d","y">>
C_description == <<"d","e","s","c","r","i","p","t","i","o","n">>
C_customer == <<"c","u","s","t","o","m","e","r">>

TEXT_CANDIDATES ==
    <<C_review, Append(C_review, "s"), C_text, C_content, C_comment, Append(C_comment, "s"),
      C_feedback, C_message, C_body, C_description,
      C_review \o <<"_">> \o C_text, C_customer \o <<"_">> \o C_review>>

\* `candidate in col or col in candidate`
Matches(candidate, col) == IsSubstr(candidate, col) \/ IsSubstr(col, candidate)

NoColumn == [none |-> TRUE, name |-> <<>>]
Column(name) == [none |-> FALSE, name |-> name]

\* index of a column name in a table (the first, were it repeated)
ColumnIndex(df, name) ==
    CHOOSE i \in 1..Len(df.columns) :
        /\ df.columns[i] = name
        /\ \A j \in 1..(i - 1) : df.columns[j] # name

\* df[col].dtype == object: the column holds strings
IsObject(cells) == \E i \in 1..Len(cells) : cells[i].kind = "str"

\* twice the median of the lengths of str(value), so that it stays an integer;
\* the median of an even number of values is the mean of the two middle ones
TwiceMedianLen(cells) ==
    LET lens == SortSeq(Tup([i \in 1..Len(cells) |-> Len(AsStr(cells[i]))]),
                        LAMBDA x, y : x < y)
        n == Len(lens)
    IN IF n % 2 = 1 THEN 2 * lens[(n + 1) \div 2]
       ELSE lens[n \div 2] + lens[(n \div 2) + 1]

\* the fallback of detect_text_column with `median() >= 20`, and without the
\* test on dtype
DetectFallback_at_least(df) ==
    IF Len(df.columns) = 1 THEN Column(df.columns[1])
    ELSE LET long == {i \in 1..Len(df.columns) :
                        /\ Len(df.data[i]) > 0
                        /\ TwiceMedianLen(df.data[i]) >= 2 * MEDIAN_MIN}
         IN IF long = {} THEN NoColumn
            ELSE Column(df.columns[CHOOSE i \in long : \A j \in long : i <= j])

\* the second and third loop of detect_text_column
DetectFallback(df) ==
    IF Len(df.columns) = 1 THEN Column(df.columns[1])
    ELSE LET long == {i \in 1..Len(df.columns) :
                        /\ IsObject(df.data[i])
                        /\ Len(df.data[i]) > 0
                        /\ TwiceMedianLen(df.data[i]) > 2 * MEDIAN_MIN}
         IN IF long = {} THEN NoColumn
            ELSE Column(df.columns[CHOOSE i \in long : \A j \in long : i <= j])

\* detect_text_column that returns the first column matching any candidate
detect_text_column_by_column(df) ==
    LET cols_lower == Tup([i \in 1..Len(df.columns) |-> Strip(Lower(df.columns[i]))])
        is == {i \in 1..Len(cols_lower) :
                 \E k \in 1..Len(TEXT_CANDIDATES) : Matches(TEXT_CANDIDATES[k], cols_lower[i])}
    IN IF is # {}
       THEN Column(df.columns[CHOOSE i \in is : \A j \in is : i <= j])
       ELSE DetectFallback(df)

\* detect_text_column
detect_text_column(df) ==
    LET cols_lower == Tup([i \in 1..Len(df.columns) |-> Strip(Lower(df.columns[i]))])
        hits == {k \in 1..Len(TEXT_CANDIDATES) :
                   \E i \in 1..Len(cols_lower) : Matches(TEXT_CANDIDATES[k], cols_lower[i])}
    IN IF hits # {}
       THEN LET k == CHOOSE c \in hits : \A d \in hits : c <= d
                is == {i \in 1..Len(cols_lower) : Matches(TEXT_CANDIDATES[k], cols_lower[i])}
            IN Column(df.columns[CHOOSE i \in is : \A j \in is : i <= j])
       ELSE DetectFallback(df)

C_sentiment == <<"s","e","n","t","i","m","e","n","t">>
C_sentiment_confidence == C_sentiment \o <<"_">> \o <<"c","o","n","f","i","d","e","n","c","e">>

LabelStr(l) ==
    IF l = "positive" THEN L_positive ELSE IF l = "negative" THEN L_negative ELSE L_neutral

\* out[name] = values: replaces the column of that name, or appends a new one
SetColumn(df, name, values) ==
    IF \E i \in 1..Len(df.columns) : df.columns[i] = name
    THEN Table(df.columns, [df.data EXCEPT ![ColumnIndex(df, name)] = values])
    ELSE Table(Append(df.columns, name), Append(df.data, values))

\* df[text_column].fillna("").astype(str).tolist()
TextsOf(df, text_column) ==
    LET cells == df.data[ColumnIndex(df, text_column)]
    IN Tup([i \in 1..Len(cells) |->
              IF cells[i].kind = "nan" THEN <<>> ELSE AsStr(cells[i])])

\* run_sentiment_on_df. df: the caller's table when the call returns
run_sentiment_on_df(g, df, text_column, ok, lex, cls, tieUp) ==
    LET r == analyze_batch(g, TextsOf(df, text_column), ok, lex, cls, tieUp)
        copy == df
        labels == Tup([i \in 1..Len(r.ret) |-> Str(LabelStr(r.ret[i][1]))])
        confs == Tup([i \in 1..Len(r.ret) |-> Flt(r.ret[i][2])])
    IN [g |-> r.g, df |-> df, raised |-> r.raised, tried |-> r.tried, used |-> r.used,
        rets |-> r.ret,
        out |-> IF r.raised THEN Table(<<>>, <<>>)
                ELSE SetColumn(SetColumn(copy, C_sentiment, labels),
                               C_sentiment_confidence, confs)]

\* ------------------------------------------------------------ sample tables
Rep(c, n) == Tup([i \in 1..n |-> c])

N_id == <<"i","d">>
N_rating == <<"r","a","t","i","n","g">>
N_notes == <<"n","o","t","e","s">>
N_review_text == C_review \o <<"_">> \o C_text

N_Text == <<"T","e","x","t"," ">>
N_Comments == <<" ","C","o","m","m","e","n","t","s">>

\* column names, as the file gives them
NamePool == {N_id, N_review_text, N_rating, <<"a">>, <<"b">>, <<"q">>, N_Text}

\* what a column may hold: two short strings, two strings of 20 characters,
\* strings of 20 and 22 characters, or integers
ShortCells == <<Str(T_good), Str(T_bad)>>
EdgeCells == <<Str(Rep("x", MEDIAN_MIN)), Str(Rep("y", MEDIAN_MIN))>>
LongCells == <<Str(Rep("x", MEDIAN_MIN)), Str(Rep("y", MEDIAN_MIN + 2))>>
IntCells == <<Num(5), Num(1)>>
CellPool == {ShortCells, EdgeCells, LongCells, IntCells}

Distinct(names) == \A i, j \in 1..Len(names) : i # j => names[i] # names[j]

GeneratedTables ==
    UNION {{Table(Tup(names), Tup(data)) :
              names \in {ns \in [1..n -> NamePool] : Distinct(ns)},
              data \in [1..n -> CellPool]} : n \in 1..MaxCols}

ExampleTables == {
    Table(<<N_id, N_review_text, N_rating>>, <<IntCells, ShortCells, IntCells>>),
    Table(<<N_id, N_notes>>, <<IntCells, LongCells>>),
    Table(<<N_Comments, N_Text, N_id>>, <<ShortCells, ShortCells, LongCells>>),
    Table(<< <<"R","e","v">>, C_review, <<"q">> >>, <<ShortCells, ShortCells, LongCells>>),
    Table(<< <<"q">>, <<"z">>, N_notes>>,
          << <<Num(1), Num(2), Num(3)>>,
             <<Str(Rep("x", 30)), Str(T_good), Str(T_bad)>>,
             <<Str(Rep("x", 30)), Str(T_good), Str(Rep("y", 21))>> >>) }

\* tables handed to detect_text_column
DetectTables == GeneratedTables \cup ExampleTables \cup {Table(<<>>, <<>>)}

\* cells of the text column of a table handed to run_sentiment_on_df
TextCells == {NaN, Str(T_good_padded), Str(T_bad)}

\* a table around a text column: with an id column, or with a sentiment
\* column that an earlier run left in the file
WithId(cells) ==
    Table(<<N_id, C_review>>, <<Tup([i \in 1..Len(cells) |-> Num(i)]), cells>>)
WithSentiment(cells) ==
    Table(<<C_sentiment, C_text>>, <<Tup([i \in 1..Len(cells) |-> Str(L_neutral)]), cells>>)

SentimentInputs ==
    UNION {{[df |-> WithId(Tup(cells)), col |-> C_review],
            [df |-> WithSentiment(Tup(cells)), col |-> C_text]} :
           cells \in ListsUpTo(TextCells, MaxRows)}

\* ----------------------------------------------------------------- actions
NoTable == Table(<<>>, <<>>)

NoCall == [op |-> "none", text |-> <<>>, texts |-> <<>>, ret |-> <<"neutral", 0>>,
           rets |-> <<>>, raised |-> FALSE, tried |-> 0, used |-> <<>>,
           before |-> "UNRESOLVED", loadsBefore |-> 0,
           df |-> NoTable, col |-> <<>>, dfAfter |-> NoTable, out |-> NoTable,
           detected |-> NoColumn]

\* the unrounded confidences of f's compounds that end in a 5
TieValues(f) ==
    {x \in {Min(10 * Scale, 5 * Scale + 5 * Abs(f[k])) : k \in DOMAIN f} : x % 10 = 5}

Threads == 1..NumThreads

Idle == [pc |-> "idle", text |-> <<>>, pipe |-> "None", ret |-> <<"neutral", 0>>,
         used |-> "none"]

Init ==
    /\ _pipeline = "None"
    /\ _use_vader = "None"
    /\ _analyzer = FALSE
    /\ loads = 0
    /\ lexicon \in LexiconSamples
    /\ classifier \in ClassifierSamples
    /\ fpTieUp \in SUBSET TieValues(lexicon)
    /\ call = NoCall
    /\ threads = [t \in Threads |-> Idle]

SetGlobals(g) ==
    \E v \in {g} :
        /\ _pipeline' = v.pipeline
        /\ _use_vader' = v.use_vader
        /\ _analyzer' = v.analyzer
        /\ loads' = v.loads


\* one call of analyze_text, on a text of S, the load succeeding as OK allows
AnalyzeTextOn(S, OK) ==
    \E text \in S, ok \in OK :
        \E r \in {analyze_text(Globals, text, ok, lexicon, classifier, fpTieUp)} :
           /\ SetGlobals(r.g)
           /\ call' = [NoCall EXCEPT !.op = "text", !.text = text, !.ret = r.ret,
                          !.texts = <<text>>,
                          !.rets = IF r.raised THEN <<>> ELSE <<r.ret>>,
                          !.raised = r.raised, !.tried = r.tried, !.used = <<r.used>>,
                          !.before = Selection(_pipeline, _use_vader),
                          !.loadsBefore = loads]
           /\ UNCHANGED <<lexicon, classifier, fpTieUp, threads>>

\* one call of analyze_text
AnalyzeText == AnalyzeTextOn(Texts, BOOLEAN)

\* one call of analyze_batch
AnalyzeBatch ==
    \E texts \in ListsUpTo(BatchTexts, MaxBatch), ok \in BOOLEAN :
        \E r \in {analyze_batch(Globals, texts, ok, lexicon, classifier, fpTieUp)} :
           /\ SetGlobals(r.g)
           /\ call' = [NoCall EXCEPT !.op = "batch", !.texts = texts, !.rets = r.ret,
                          !.raised = r.raised, !.tried = r.tried, !.used = r.used,
                          !.before = Selection(_pipeline, _use_vader),
                          !.loadsBefore = loads]
           /\ UNCHANGED <<lexicon, classifier, fpTieUp, threads>>

\* one call of run_sentiment_on_df
RunSentimentOnDf ==
    \E in \in SentimentInputs, ok \in BOOLEAN :
        \E r \in {run_sentiment_on_df(Globals, in.df, in.col, ok,
                                       lexicon, classifier, fpTieUp)} :
           /\ SetGlobals(r.g)
           /\ call' = [NoCall EXCEPT !.op = "df", !.df = in.df, !.col = in.col,
                          !.dfAfter = r.df, !.out = r.out, !.rets = r.rets,
                          !.texts = TextsOf(in.df, in.col),
                          !.raised = r.raised, !.tried = r.tried, !.used = r.used,
                          !.before = Selection(_pipeline, _use_vader),
                          !.loadsBefore = loads]
           /\ UNCHANGED <<lexicon, classifier, fpTieUp, threads>>

\* the service called from one thread, one call after the other
Next == AnalyzeText \/ AnalyzeBatch

Spec == Init /\ [][Next]_vars

\* the same, with tables
NextTable == AnalyzeText \/ RunSentimentOnDf

SpecTable == Init /\ [][NextTable]_vars

\* ------------------------------------------- detect_text_column on its own
\* a call of detect_text_column(df) is about to be made
InitDetect ==
    /\ _pipeline = "None"
    /\ _use_vader = "None"
    /\ _analyzer = FALSE
    /\ loads = 0
    /\ lexicon \in {OnKeys(0, 0)}
    /\ classifier \in {OnKeys(M_list, M_list)}
    /\ fpTieUp = {}
    /\ call \in {[NoCall EXCEPT !.op = "detect_pending", !.df = df] : df \in DetectTables}
    /\ threads = [t \in Threads |-> Idle]

\* the call of detect_text_column
DetectTextColumn ==
    /\ call.op = "detect_pending"
    /\ call' = [call EXCEPT !.op = "detect", !.dfAfter = call.df,
                            !.detected = detect_text_column(call.df)]
    /\ UNCHANGED <<_pipeline, _use_vader, _analyzer, loads, lexicon, classifier, fpTieUp,
                   threads>>

SpecDetect == InitDetect /\ [][DetectTextColumn]_vars

\* ------------------------------------- the lexicon analyzer on every score
\* a process in which the model cannot be loaded; the lexicon gives any
\* compound score of [-1, 1] (it rounds the score to four places itself)
InitVader ==
    /\ _pipeline = "None"
    /\ _use_vader = "None"
    /\ _analyzer = FALSE
    /\ loads = 0
    /\ lexicon \in {OnKeys(c, -c) : c \in (-Scale)..Scale}
    /\ classifier \in {OnKeys(M_list, M_list)}
    /\ fpTieUp \in SUBSET TieValues(lexicon)
    /\ call = NoCall
    /\ threads = [t \in Threads |-> Idle]

NextVader == AnalyzeTextOn({T_good, T_bad}, {FALSE})

SpecVader == InitVader /\ [][NextVader]_vars

\* ------------------------------------------------ analyze_text, concurrently
\* Each thread runs analyze_text line by line; a step is one source line, the
\* interpreter switching threads between any two of them.
ThreadTexts == {T_blank, T_good}

Goto(t, pc) == threads' = [threads EXCEPT ![t].pc = pc]

UnchangedGlobals == UNCHANGED <<_pipeline, _use_vader, _analyzer, loads>>
UnchangedEnv == UNCHANGED <<lexicon, classifier, fpTieUp, call>>

\* analyze_text(text) is called
Call(t) ==
    /\ threads[t].pc = "idle"
    /\ \E text \in ThreadTexts : threads' = [threads EXCEPT ![t] = [Idle EXCEPT !.pc = "L52", !.text = text]]
    /\ UnchangedGlobals /\ UnchangedEnv

\* line 52: if not text or not str(text).strip(): return "neutral", 0.0
L52(t) ==
    /\ threads[t].pc = "L52"
    /\ IF IsBlank(threads[t].text)
       THEN threads' = [threads EXCEPT ![t].pc = "done", ![t].ret = <<"neutral", 0>>]
       ELSE Goto(t, "L16")
    /\ UnchangedGlobals /\ UnchangedEnv

\* line 16: if _use_vader is False and _pipeline is not None: return _pipeline
L16(t) ==
    /\ threads[t].pc = "L16"
    /\ IF _use_vader = "False" /\ _pipeline # "None"
       THEN threads' = [threads EXCEPT ![t].pc = "L55", ![t].pipe = _pipeline]
       ELSE Goto(t, "L18")
    /\ UnchangedGlobals /\ UnchangedEnv

\* line 18: if _use_vader is True: return None
L18(t) ==
    /\ threads[t].pc = "L18"
    /\ IF _use_vader = "True"
       THEN threads' = [threads EXCEPT ![t].pc = "L55", ![t].pipe = "None"]
       ELSE Goto(t, "L21")
    /\ UnchangedGlobals /\ UnchangedEnv

\* lines 21-26: the import and pipeline(...) run, and succeed or raise
L21(t) ==
    /\ threads[t].pc = "L21"
    /\ loads' = Bump(loads)
    /\ \E ok \in BOOLEAN : Goto(t, IF ok THEN "L22" ELSE "L30")
    /\ UNCHANGED <<_pipeline, _use_vader, _analyzer>>
    /\ UnchangedEnv

\* line 22: _pipeline = <the pipeline just built>
L22(t) ==
    /\ threads[t].pc = "L22"
    /\ _pipeline' = "pipe"
    /\ Goto(t, "L27")
    /\ UNCHANGED <<_use_vader, _analyzer, loads>>
    /\ UnchangedEnv

\* line 27: _use_vader = False
L27(t) ==
    /\ threads[t].pc = "L27"
    /\ _use_vader' = "False"
    /\ Goto(t, "L28")
    /\ UNCHANGED <<_pipeline, _analyzer, loads>>
    /\ UnchangedEnv

\* line 28: return _pipeline
L28(t) ==
    /\ threads[t].pc = "L28"
    /\ threads' = [threads EXCEPT ![t].pc = "L55", ![t].pipe = _pipeline]
    /\ UnchangedGlobals /\ UnchangedEnv

\* lines 30-31: _use_vader = True; return None
L30(t) ==
    /\ threads[t].pc = "L30"
    /\ _use_vader' = "True"
    /\ threads' = [threads EXCEPT ![t].pc = "L55", ![t].pipe = "None"]
    /\ UNCHANGED <<_pipeline, _analyzer, loads>>
    /\ UnchangedEnv

\* lines 55-65: the analyzer that _get_pipeline selected answers
L55(t) ==
    /\ threads[t].pc = "L55"
    /\ IF threads[t].pipe = "None"
       THEN /\ _analyzer' = TRUE
            /\ threads' = [threads EXCEPT ![t].pc = "done", ![t].used = "vader",
                              ![t].ret = VaderResult(lexicon[Key(threads[t].text)], fpTieUp)]
       ELSE /\ _analyzer' = _analyzer
            /\ threads' = [threads EXCEPT ![t].pc = "done", ![t].used = "model",
                              ![t].ret = ModelResult(classifier[Key(threads[t].text)], fpTieUp)]
    /\ UNCHANGED <<_pipeline, _use_vader, loads>>
    /\ UnchangedEnv

\* the caller has the result
Return(t) ==
    /\ threads[t].pc = "done"
    /\ threads' = [threads EXCEPT ![t] = Idle]
    /\ UnchangedGlobals /\ UnchangedEnv

NextConc ==
    \E t \in Threads :
        \/ Call(t) \/ L52(t) \/ L16(t) \/ L18(t) \/ L21(t) \/ L22(t)
        \/ L27(t) \/ L28(t) \/ L30(t) \/ L55(t) \/ Return(t)

SpecConc == Init /\ [][NextConc]_vars

\* ------------------------------------------------------------- properties
Sel == Selection(_pipeline, _use_vader)

\* C1: once the selection is MODEL or LEXICON, no call changes it and no call
\* enters the try block of _get_pipeline again
C1_SelectionPermanent ==
    [][Sel # "UNRESOLVED" =>
         /\ Selection(_pipeline', _use_vader') = Sel
         /\ loads' = loads
         /\ call'.tried = 0]_vars

\* a batch of two non-blank texts was answered by the model selected earlier
C1_Witness ==
    /\ call.op = "batch"
    /\ call.before = "MODEL"
    /\ call.used = <<"model", "model">>
    /\ loads = 1

\* a load was tried and left no pipeline: it failed
LoadFailed == loads > 0 /\ _pipeline = "None"

\* C2: after a failed load the selection is LEXICON, every non-blank text of
\* every call is answered by _analyze_vader, and no call raises
C2_FailedLoadDegrades ==
    LoadFailed =>
        /\ Sel = "LEXICON"
        /\ ~call.raised
        /\ Len(call.used) = Len(call.texts)
        /\ Len(call.rets) = Len(call.texts)
        /\ \A i \in 1..Len(call.texts) :
              call.used[i] = IF IsBlank(call.texts[i]) THEN "none" ELSE "vader"

\* a table was analysed by the lexicon in a process whose load had failed before
C2_Witness ==
    /\ LoadFailed
    /\ call.op = "df"
    /\ call.before = "LEXICON"
    /\ \E i \in 1..Len(call.used) : call.used[i] = "vader"

\* C3: analyze_text on empty or whitespace-only text returns (neutral, 0.0),
\* tries no load, invokes no analyzer and leaves the selection as it was
C3_BlankShortCircuits ==
    (call.op = "text" /\ IsBlank(call.text)) =>
        /\ call.ret = <<"neutral", 0>>
        /\ ~call.raised
        /\ call.tried = 0
        /\ call.used = <<"none">>
        /\ loads = call.loadsBefore
        /\ Sel = call.before

\* whitespace-only text was analysed while the selection was UNRESOLVED
C3_Witness ==
    /\ call.op = "text"
    /\ call.text = T_blank
    /\ call.before = "UNRESOLVED"
    /\ Sel = "UNRESOLVED"

\* C4: every result has a label of {positive, neutral, negative} and a
\* confidence in [0.0, 1.0]
C4_ResultInRange ==
    /\ ~call.raised
    /\ \A i \in 1..Len(call.rets) :
          /\ call.rets[i][1] \in {"positive", "neutral", "negative"}
          /\ call.rets[i][2] \in 0..Scale

\* the model's top label was unrecognized and came back as neutral
C4_Witness ==
    /\ call.op = "text"
    /\ call.used = <<"model">>
    /\ classifier[Key(call.text)] = M_list
    /\ call.ret = <<"neutral", 4000>>

\* C5: analyze_batch returns one result per text, in order, each equal to what
\* analyze_text returns for that text
C5_BatchElementwise ==
    call.op = "batch" =>
        /\ Len(call.rets) = Len(call.texts)
        /\ \A i \in 1..Len(call.texts), ok \in BOOLEAN :
              analyze_text(Globals, call.texts[i], ok, lexicon, classifier, fpTieUp).ret
                 = call.rets[i]

\* a batch of two texts with different results resolved the selection itself
C5_Witness ==
    /\ call.op = "batch"
    /\ call.before = "UNRESOLVED"
    /\ call.tried = 1
    /\ Len(call.rets) = 2
    /\ call.texts[1] # T_blank
    /\ call.rets[1] # call.rets[2]

\* the unrounded confidence of _analyze_vader for compound c, in 1/(10*Scale)
Unrounded(c) ==
    IF c >= POS_THRESHOLD \/ c <= NEG_THRESHOLD
    THEN Min(10 * Scale, 5 * Scale + 5 * Abs(c))
    ELSE 5 * Scale + (5 * Scale - 10 * Abs(c))

LexLabel(c) ==
    IF c >= POS_THRESHOLD THEN "positive"
    ELSE IF c <= NEG_THRESHOLD THEN "negative"
    ELSE "neutral"

\* C6 as claimed: the lexicon's label follows the inclusive thresholds and the
\* confidence is exactly min(1.0, 0.5 + |compound|/2), or 0.5 + (0.5 - |compound|)
C6_Original ==
    (call.op = "text" /\ call.used = <<"vader">>) =>
        LET c == lexicon[Key(call.text)]
        IN /\ call.ret[1] = LexLabel(c)
           /\ 10 * call.ret[2] = Unrounded(c)

\* C6 as amended: the label follows the inclusive thresholds and the confidence
\* is that value rounded to four decimal places
C6_LexiconThresholds ==
    (call.op = "text" /\ call.used = <<"vader">>) =>
        LET c == lexicon[Key(call.text)]
        IN /\ call.ret[1] = LexLabel(c)
           /\ (10 * call.ret[2] - Unrounded(c)) \in (-5)..5
           /\ (c = 0 => call.ret = <<"neutral", Scale>>)

\* a compound of exactly 0.05 came back positive
C6_Witness ==
    /\ call.op = "text"
    /\ call.used = <<"vader">>
    /\ lexicon[Key(call.text)] = POS_THRESHOLD
    /\ call.ret = <<"positive", 5250>>

\* C7 as claimed: on the columns "a" and "b", both holding short values,
\* detect_text_column returns None
C7_ShortColumnsGiveNone ==
    (/\ call.op = "detect"
     /\ call.df.columns = << <<"a">>, <<"b">> >>
     /\ \A i \in 1..2 : TwiceMedianLen(call.df.data[i]) <= 2 * MEDIAN_MIN)
    => call.detected = NoColumn

\* the (candidate, column) pairs that match, by their indices
MatchPairs(df) ==
    {p \in (1..Len(TEXT_CANDIDATES)) \X (1..Len(df.columns)) :
        Matches(TEXT_CANDIDATES[p[1]], Strip(Lower(df.columns[p[2]])))}

Earlier(p, q) == p[1] < q[1] \/ (p[1] = q[1] /\ p[2] <= q[2])

\* C8: when some column matches some candidate, the result is the original name
\* of the first matching column of the earliest candidate that has a match;
\* on id, review_text, rating it is review_text
C8_FirstMatchByCandidate ==
    (call.op = "detect" /\ MatchPairs(call.df) # {}) =>
        /\ \E p \in MatchPairs(call.df) :
              /\ \A q \in MatchPairs(call.df) : Earlier(p, q)
              /\ call.detected = Column(call.df.columns[p[2]])
        /\ (call.df.columns = <<N_id, N_review_text, N_rating>>
               => call.detected = Column(N_review_text))

\* the example table was given and review_text came back
C8_Witness ==
    /\ call.op = "detect"
    /\ call.df.columns = <<N_id, N_review_text, N_rating>>
    /\ call.detected = Column(N_review_text)

\* the cells that analyze_text gives for the cell of the text column
SentimentOf(cell) ==
    LET text == IF cell.kind = "nan" THEN <<>> ELSE AsStr(cell)
    IN {<<Str(LabelStr(r[1])), Flt(r[2])>> :
          r \in {analyze_text(Globals, text, ok, lexicon, classifier, fpTieUp).ret :
                   ok \in BOOLEAN}}

\* row i of the result columns of out holds analyze_text of row i of the text
\* column of df, and (neutral, 0.0) where that is missing
RowsAnalysed(df, col, out) ==
    LET cells == df.data[ColumnIndex(df, col)]
        s == out.data[ColumnIndex(out, C_sentiment)]
        c == out.data[ColumnIndex(out, C_sentiment_confidence)]
    IN /\ Len(s) = Len(cells) /\ Len(c) = Len(cells)
       /\ \A i \in 1..Len(cells) :
             /\ SentimentOf(cells[i]) = {<<s[i], c[i]>>}
             /\ (cells[i].kind = "nan" => <<s[i], c[i]>> = <<Str(L_neutral), Flt(0)>>)

Has(df, name) == \E i \in 1..Len(df.columns) : df.columns[i] = name

\* C9: df is unchanged and the result is df with all its columns as they were,
\* plus sentiment and sentiment_confidence holding each row's analysis, a
\* missing text giving (neutral, 0.0)
C9_NewTableWithSentiment ==
    call.op = "df" =>
        /\ ~call.raised
        /\ call.dfAfter = call.df
        /\ call.out.columns = call.df.columns \o <<C_sentiment, C_sentiment_confidence>>
        /\ \A j \in 1..Len(call.df.columns) : call.out.data[j] = call.df.data[j]
        /\ RowsAnalysed(call.df, call.col, call.out)

\* C10 as claimed: with concurrent callers the load is tried at most once, and a
\* selection once made is not replaced
C10_LoadOnceUnderConcurrency ==
    [][/\ loads' <= 1
       /\ (Sel # "UNRESOLVED" => Selection(_pipeline', _use_vader') = Sel)]_vars

\* column i of df is text-typed and the median length of its values is
\* strictly greater than 20
LongText(df, i) ==
    /\ IsObject(df.data[i])
    /\ TwiceMedianLen(df.data[i]) > 2 * MEDIAN_MIN

\* C11: when no column matches any candidate, a table of exactly one column
\* gives that column whatever it holds; any other table gives its first
\* text-typed column whose median value length is strictly greater than 20,
\* and None when it has none; the result is None or a column name of the table
C11_FallbackOrder ==
    (call.op = "detect" /\ MatchPairs(call.df) = {}) =>
        LET df == call.df
            n == Len(df.columns)
        IN /\ (n = 1 => call.detected = Column(df.columns[1]))
           /\ (n # 1 =>
                 \/ /\ call.detected = NoColumn
                    /\ \A i \in 1..n : ~LongText(df, i)
                 \/ \E i \in 1..n :
                       /\ LongText(df, i)
                       /\ \A j \in 1..(i - 1) : ~LongText(df, j)
                       /\ call.detected = Column(df.columns[i]))
           /\ \/ call.detected = NoColumn
              \/ \E i \in 1..n : call.detected = Column(df.columns[i])

\* no name matched; the first column, of strings with a median length of
\* exactly 20, was passed over and the second, with a median of 21, came back
C11_Witness ==
    /\ call.op = "detect"
    /\ call.df.columns = <<N_id, N_rating>>
    /\ call.df.data = <<EdgeCells, LongCells>>
    /\ MatchPairs(call.df) = {}
    /\ call.detected = Column(N_rating)

====
